---- MODULE Spec2Model ----
(***************************************************************************)
(* Model of the palate-cleanser music application: the Express route       *)
(* handlers of src/app.js over the users, tracks and sessions collections, *)
(* with the Mongoose models of src/models/User.js and                      *)
(* src/models/MusicTrack.js.                                               *)
(*                                                                         *)
(* Every handler is one action, except the handlers that await more than   *)
(* one store operation that writes or that other requests can observe:     *)
(* POST /delete/:id (findByIdAndDelete, then updateMany $pull), POST       *)
(* /register (the pre-save bcrypt hash, then the insert) and the startup   *)
(* routine populateTracks (deleteMany, countDocuments, insertMany).        *)
(***************************************************************************)
EXTENDS Integers, Sequences, FiniteSets, TLC

(***************************************************************************)
(* Bounds of the model.                                                    *)
(***************************************************************************)
MaxTrackId == 7      \* POST /add hands out ObjectIds up to this one
MaxRestarts == 1     \* process restarts after the first start
MaxTracks == 6       \* documents the tracks collection holds at once
MaxDeleting == 2     \* POST /delete/:id requests suspended at their second await
MaxRegistering == 2  \* POST /register requests suspended at user.save()
MaxHoming == 2       \* GET / requests suspended at the aggregate
MaxTime == 32        \* the clock stops here (hours)

(***************************************************************************)
(* Program constants.                                                      *)
(***************************************************************************)
SessionMaxAge == 24  \* cookie.maxAge = 1000 * 60 * 60 * 24 ms, in hours
MinPasswordLength == 6
BcryptMaxBytes == 72 \* bcrypt reads the first 72 bytes of the password
TickHours == 8       \* granularity of the model clock

(***************************************************************************)
(* JavaScript values of the request body: a field is absent (undefined)    *)
(* or a string, kept as the sequence of its characters (for a URL, of its  *)
(* lexical pieces).                                                        *)
(***************************************************************************)
Undefined == [type |-> "undefined", chars |-> <<>>]

Str(cs) == [type |-> "string", chars |-> cs]

\* !v is false exactly for a non-empty string.
Truthy(v) == v.type = "string" /\ Len(v.chars) > 0

\* v || d
OrElse(v, d) == IF Truthy(v) THEN v ELSE d

\* String.prototype.includes
Includes(v, needle) ==
    \E i \in 1..(Len(v.chars) - Len(needle) + 1) :
        SubSeq(v.chars, i, i + Len(needle) - 1) = needle

Min(a, b) == IF a < b THEN a ELSE b

Range(f) == {f[i] : i \in DOMAIN f}

RECURSIVE Repeat(_, _)
Repeat(c, n) == IF n = 0 THEN <<>> ELSE <<c>> \o Repeat(c, n - 1)


(***************************************************************************)
(* bcryptjs.  A hash is kept as its salt and what the digest depends on:   *)
(* the salt and the first BcryptMaxBytes bytes of the password (the 18     *)
(* words of the Blowfish key schedule).  Two hashes are equal exactly when *)
(* salt and truncated password are.                                        *)
(***************************************************************************)
Salts == {"salt1"}

BcryptHash(pw, salt) ==
    [salt |-> salt,
     digest |-> SubSeq(pw.chars, 1, Min(Len(pw.chars), BcryptMaxBytes))]

\* bcrypt.compare(candidate, hash), for a string candidate
BcryptCompare(candidate, hash) == BcryptHash(candidate, hash.salt) = hash

(***************************************************************************)
(* Request inputs.                                                         *)
(***************************************************************************)
Tokens == {"s1", "s2", "s3"}

Alice == Str(<<"a", "l", "i", "c", "e">>)
Bob == Str(<<"b", "o", "b">>)
Carol == Str(<<"c", "a", "r", "o", "l">>)
Empty == Str(<<>>)

PwGood == Str(<<"s", "e", "c", "r", "e", "t">>)
PwOther == Str(<<"s", "e", "c", "r", "e", "T">>)
PwShort == Str(<<"s", "e", "c">>)
PwFive == Str(<<"s", "e", "c", "r", "e">>)
PwLongA == Str(Repeat("x", BcryptMaxBytes) \o <<"a">>)
PwLongB == Str(Repeat("x", BcryptMaxBytes) \o <<"b">>)

\* A route parameter :id is a 24-digit hex string, which Mongoose casts to
\* the ObjectId oid, or something else, which it cannot cast.
ObjectIdParam(i) == [hex |-> TRUE, oid |-> i]
Malformed == [hex |-> FALSE, oid |-> 0]
TrackParams == {ObjectIdParam(1), ObjectIdParam(2), Malformed}

YoutubeEmbed == <<"youtube.com", "/embed/">>
GoodUrl == Str(<<"https://www.", "youtube.com", "/embed/", "dQw4w9WgXcQ">>)
WatchUrl == Str(<<"https://www.", "youtube.com", "/watch?v=", "dQw4w9WgXcQ">>)
SongName == Str(<<"S", "o", "n", "g">>)
ArtistName == Str(<<"M", "e">>)
UserContributed == Str(<<"User Contributed">>)
UnknownPalateCleanser == Str(<<"Unknown Palate Cleanser">>)

\* The five documents populateTracks inserts.
SeedTracks ==
    << [name |-> Str(<<"Tibetan Bowl Resonances">>), artist |-> Str(<<"Calm Sounds">>),
        genre |-> Str(<<"Ambient Drone">>),
        embedUrl |-> Str(<<"https://www.", "youtube.com", "/embed/", "PjE2qf6F3F4">>)],
       [name |-> Str(<<"Heavy Rain on Tin Roof">>), artist |-> Str(<<"Nature Sounds">>),
        genre |-> Str(<<"White Noise">>),
        embedUrl |-> Str(<<"https://www.", "youtube.com", "/embed/", "q76bMAP1Xqg">>)],
       [name |-> Str(<<"Symphony No. 5 (First Movement)">>),
        artist |-> Str(<<"Classical Archive">>), genre |-> Str(<<"Unexpected Classical">>),
        embedUrl |-> Str(<<"https://www.", "youtube.com", "/embed/", "j_8CAgq7v0M">>)],
       [name |-> Str(<<"1980s Game Menu Music">>), artist |-> Str(<<"Retro Arcade">>),
        genre |-> Str(<<"Chiptune">>),
        embedUrl |-> Str(<<"https://www.", "youtube.com", "/embed/", "S_7gN8P5b9E">>)],
       [name |-> Str(<<"French Jazz Cafe">>), artist |-> Str(<<"Bistro Background">>),
        genre |-> Str(<<"Lo-Fi Instrumental">>),
        embedUrl |-> Str(<<"https://www.", "youtube.com", "/embed/", "m6lH_S_z-xM">>)] >>

(***************************************************************************)
(* State.                                                                  *)
(***************************************************************************)
VARIABLES
    users,        \* users collection: user _id i is users[i]
    tracks,       \* musictracks collection: a set of documents
    nextTrackId,  \* the next fresh ObjectId of a track
    sessions,     \* sessions collection (MongoStore), by session token
    now,          \* the clock, in hours
    registering,  \* POST /register requests awaiting user.save()
    deleting,     \* POST /delete/:id requests between their two awaits
    seedPc,       \* where populateTracks stands
    restarts,     \* process restarts so far
    response,     \* the response this step sent, if it sent one
    registered,   \* history: the password user i registered with
    homing        \* GET / requests between countDocuments and aggregate

vars == <<users, tracks, nextTrackId, sessions, now, registering, deleting,
          seedPc, restarts, response, registered, homing>>

(***************************************************************************)
(* Responses.                                                              *)
(***************************************************************************)
Redirect(to) == [status |-> 302, kind |-> "redirect", what |-> to, error |-> ""]

\* res.redirect('/?error=' + encodeURIComponent(msg))
RedirectError(to, msg) == [status |-> 302, kind |-> "redirect", what |-> to, error |-> msg]

Render(view, error) == [status |-> 200, kind |-> "render", what |-> view, error |-> error]

Send(status, text) == [status |-> status, kind |-> "send", what |-> text, error |-> ""]

ErrRegisterInvalid == "Username/Password cannot be empty or password too short."
ErrRegisterTaken == "That username is already taken. Please try another."
ErrRegisterOther == "An error occurred during registration."
ErrLoginInvalid == "Invalid username or password."
ErrAddInvalid ==
    "Invalid track details: Name is required, and URL must be a YouTube embed link."

\* data: what the handler hands to the view.  found (history): what the
\* request met in the store: for the favorites routes whether the id was
\* in the favorites, for a delete the request as it was suspended.
NoResponse == [route |-> "", res |-> Send(0, ""), data |-> <<>>, found |-> <<>>]

Reply(route, res) == [route |-> route, res |-> res, data |-> <<>>, found |-> <<>>]

ReplyFound(route, res, found) ==
    [route |-> route, res |-> res, data |-> <<>>, found |-> <<found>>]

(***************************************************************************)
(* Sessions: express-session over connect-mongo.                           *)
(***************************************************************************)
NoSession == [stored |-> FALSE, userId |-> 0, expires |-> 0, started |-> 0]

\* MongoStore.get: the document of the token, unless it has expired.
Loaded(s) == sessions[s].stored /\ sessions[s].expires > now

\* req.session.userId of a request carrying token s (0: none)
SessionUser(s) == IF Loaded(s) THEN sessions[s].userId ELSE 0

\* Faulty variant of isAuthenticated: req.session is tested, not its userId.
AnySession(s) == TRUE

isAuthenticated(s) == SessionUser(s) # 0

\* End of a request that left its session as loaded: express-session
\* touches the stored document, which resets its expiry to now + maxAge.
Touch(store, s, wasLoaded) ==
    IF wasLoaded /\ store[s].stored
    THEN [store EXCEPT ![s].expires = now + SessionMaxAge]
    ELSE store

\* End of a request that set req.session.userId: the session is saved.
SaveSession(store, s, uid) ==
    [store EXCEPT ![s] = [stored |-> TRUE, userId |-> uid,
                          expires |-> now + SessionMaxAge, started |-> now]]

\* Faulty variant of DestroySession: the stored document stays.
KeepSession(store, s) == store

\* req.session.destroy
DestroySession(store, s) == [store EXCEPT ![s] = NoSession]


(***************************************************************************)
(* Store operations (MongoDB through Mongoose).                            *)
(***************************************************************************)
TrackIds == {d._id : d \in tracks}

\* User.findOne({ username }): the _id of the user, 0 for null
FindOne(username) ==
    IF \E i \in DOMAIN users : users[i].username = username
    THEN CHOOSE i \in DOMAIN users : users[i].username = username
    ELSE 0

\* Faulty variant of DuplicateKey: the unique index was never built.
NoUniqueIndex(U, username) == FALSE

\* The unique index on username: an insert of a second document with the
\* same username fails with E11000.
DuplicateKey(U, username) == \E i \in DOMAIN U : U[i].username = username

\* Faulty variant of AddToSet: $push.
Push(favs, oid) == Append(favs, oid)

\* $addToSet on the favorites array
AddToSet(favs, oid) == IF oid \in Range(favs) THEN favs ELSE Append(favs, oid)

\* Faulty variant of Pull: $pop, which drops the last element.
Pop(favs, oid) == IF favs = <<>> THEN favs ELSE SubSeq(favs, 1, Len(favs) - 1)

\* $pull on the favorites array
Pull(favs, oid) == SelectSeq(favs, LAMBDA x : x # oid)

\* Faulty variant of PullFromAll: updateOne, which changes the first user only.
PullFromFirst(U, oid) ==
    [i \in DOMAIN U |-> IF i = 1 THEN [U[i] EXCEPT !.favorites = Pull(@, oid)] ELSE U[i]]

\* User.updateMany({}, { $pull: { favorites: oid } })
PullFromAll(U, oid) == [i \in DOMAIN U |-> [U[i] EXCEPT !.favorites = Pull(@, oid)]]

\* MusicTrack.findByIdAndDelete(oid)
FindByIdAndDelete(T, oid) == {d \in T : d._id # oid}

\* Faulty variant of Populate: retainNullValues, which keeps a null in the
\* place of every id that does not resolve.
RetainNullValues(favs) ==
    [i \in DOMAIN favs |->
        IF favs[i] \in TrackIds THEN CHOOSE d \in tracks : d._id = favs[i]
        ELSE [_id |-> 0]]

\* .populate('favorites'): the documents of the ids that resolve, in order
Populate(favs) ==
    LET kept == SelectSeq(favs, LAMBDA x : x \in TrackIds)
    IN  [i \in DOMAIN kept |-> CHOOSE d \in tracks : d._id = kept[i]]

\* new MusicTrack({...}): _id and createdAt are set at construction
NewTrack(oid, name, artist, genre, embedUrl) ==
    [_id |-> oid, name |-> name, artist |-> artist, genre |-> genre,
     embedUrl |-> embedUrl, createdAt |-> now]

(***************************************************************************)
(* A delete request between its two awaits remembers the collections as    *)
(* they were when it started, for as long as no other operation has run    *)
(* since (history, not program state).                                     *)
(***************************************************************************)
NoSnapshot == [clean |-> FALSE, users |-> <<>>, tracks |-> {}]

Snapshot == [clean |-> TRUE, users |-> users, tracks |-> tracks]

Interleaved(D) == {[d EXCEPT !.pre = NoSnapshot] : d \in D}

(***************************************************************************)
(* Init: the process has connected and calls populateTracks(); the         *)
(* collections are empty.                                                  *)
(***************************************************************************)
Init ==
    /\ users = <<>>
    /\ tracks = {}
    /\ nextTrackId = 1
    /\ sessions = [s \in Tokens |-> NoSession]
    /\ now = 0
    /\ registering = {}
    /\ deleting = {}
    /\ seedPc = "deleteMany"
    /\ restarts = 0
    /\ response = NoResponse
    /\ registered = <<>>
    /\ homing = {}

(***************************************************************************)
(* populateTracks                                                          *)
(***************************************************************************)
\* The documents insertMany creates, with _ids from first on.
Seeded(first) ==
    {NewTrack(first + i - 1, SeedTracks[i].name, SeedTracks[i].artist,
              SeedTracks[i].genre, SeedTracks[i].embedUrl) : i \in DOMAIN SeedTracks}

PopulateDeleteMany ==
    /\ seedPc = "deleteMany"
    /\ tracks' = {}
    /\ seedPc' = "countDocuments"
    /\ deleting' = Interleaved(deleting)
    /\ response' = NoResponse
    /\ UNCHANGED <<users, nextTrackId, sessions, now, registering, restarts, registered, homing>>

PopulateCount ==
    /\ seedPc = "countDocuments"
    /\ seedPc' = IF Cardinality(tracks) = 0 THEN "insertMany" ELSE "done"
    /\ response' = NoResponse
    /\ UNCHANGED <<users, tracks, nextTrackId, sessions, now, registering, deleting,
                   restarts, registered, homing>>

PopulateInsertMany ==
    /\ seedPc = "insertMany"
    /\ tracks' = tracks \cup Seeded(nextTrackId)
    /\ nextTrackId' = nextTrackId + Len(SeedTracks)
    /\ seedPc' = "done"
    /\ deleting' = Interleaved(deleting)
    /\ response' = NoResponse
    /\ UNCHANGED <<users, sessions, now, registering, restarts, registered, homing>>

\* The process stops and starts again: the collections persist, the
\* requests in flight are lost, populateTracks runs again.
Restart ==
    /\ restarts < MaxRestarts
    /\ restarts' = restarts + 1
    /\ seedPc' = "deleteMany"
    /\ registering' = {}
    /\ deleting' = {}
    /\ homing' = {}
    /\ response' = NoResponse
    /\ UNCHANGED <<users, tracks, nextTrackId, sessions, now, registered>>

Tick ==
    /\ now + TickHours <= MaxTime
    /\ now' = now + TickHours
    /\ response' = NoResponse
    /\ UNCHANGED <<users, tracks, nextTrackId, sessions, registering, deleting,
                   seedPc, restarts, registered, homing>>

(***************************************************************************)
(* POST /register                                                          *)
(***************************************************************************)
\* Faulty variant of RegisterInvalid: the length of the password is not tested.
RegisterEmpty(username, password) == ~Truthy(username) \/ ~Truthy(password)

\* !username || !password || password.length < 6
RegisterInvalid(username, password) ==
    \/ ~Truthy(username)
    \/ ~Truthy(password)
    \/ Len(password.chars) < MinPasswordLength

\* Up to the await of user.save(): the check of the body, and the pre-save
\* hook, which hashes the password.
RegisterBegin(s, username, password, salt) ==
    /\ IF RegisterInvalid(username, password)
       THEN /\ response' = Reply("POST /register", Render("register", ErrRegisterInvalid))
            /\ sessions' = Touch(sessions, s, Loaded(s))
            /\ UNCHANGED registering
       ELSE /\ Cardinality(registering) < MaxRegistering
            /\ registering' = registering \cup
                  {[sess |-> s, username |-> username,
                    password |-> BcryptHash(password, salt), loaded |-> Loaded(s),
                    plain |-> password]}
            /\ response' = NoResponse
            /\ UNCHANGED sessions
    /\ deleting' = Interleaved(deleting)
    /\ UNCHANGED <<users, tracks, nextTrackId, now, seedPc, restarts, registered, homing>>

\* The insert, and what follows it.
RegisterSave(r) ==
    /\ r \in registering
    /\ registering' = registering \ {r}
    /\ IF DuplicateKey(users, r.username)
       THEN /\ response' = Reply("POST /register", Render("register", ErrRegisterTaken))
            /\ sessions' = Touch(sessions, r.sess, r.loaded)
            /\ UNCHANGED <<users, registered>>
       ELSE /\ users' = Append(users, [username |-> r.username, password |-> r.password,
                                       favorites |-> <<>>])
            /\ registered' = Append(registered, r.plain)
            /\ sessions' = SaveSession(sessions, r.sess, Len(users) + 1)
            /\ response' = Reply("POST /register", Redirect("/"))
    /\ deleting' = Interleaved(deleting)
    /\ UNCHANGED <<tracks, nextTrackId, now, seedPc, restarts, homing>>

(***************************************************************************)
(* POST /login, POST /logout                                               *)
(***************************************************************************)
Login(s, username, password) ==
    LET user == FindOne(username) IN
    /\ IF user = 0
       THEN /\ response' = Reply("POST /login", Render("login", ErrLoginInvalid))
            /\ sessions' = Touch(sessions, s, Loaded(s))
       ELSE IF password.type # "string"
       THEN \* bcrypt.compare rejects: Illegal arguments
            /\ response' = Reply("POST /login", Send(500, "Server Error during login process."))
            /\ sessions' = Touch(sessions, s, Loaded(s))
       ELSE IF ~BcryptCompare(password, users[user].password)
       THEN /\ response' = Reply("POST /login", Render("login", ErrLoginInvalid))
            /\ sessions' = Touch(sessions, s, Loaded(s))
       ELSE /\ sessions' = SaveSession(sessions, s, user)
            /\ response' = Reply("POST /login", Redirect("/"))
    /\ deleting' = Interleaved(deleting)
    /\ UNCHANGED <<users, tracks, nextTrackId, now, registering, seedPc, restarts, registered, homing>>

Logout(s) ==
    /\ sessions' = DestroySession(sessions, s)
    /\ response' = Reply("POST /logout", Redirect("/login"))
    /\ deleting' = Interleaved(deleting)
    /\ UNCHANGED <<users, tracks, nextTrackId, now, registering, seedPc, restarts, registered, homing>>


(***************************************************************************)
(* POST /add                                                               *)
(***************************************************************************)
Add(s, name, artist, genre, embedUrl) ==
    /\ IF ~isAuthenticated(s)
       THEN /\ response' = Reply("POST /add", Redirect("/login"))
            /\ UNCHANGED <<tracks, nextTrackId>>
       ELSE IF ~Truthy(name)
       THEN /\ response' = Reply("POST /add", RedirectError("/", ErrAddInvalid))
            /\ UNCHANGED <<tracks, nextTrackId>>
       ELSE IF embedUrl.type # "string"
       THEN \* embedUrl.includes throws a TypeError inside the try block
            /\ response' = Reply("POST /add", Send(500, "Error adding track. Check server logs."))
            /\ UNCHANGED <<tracks, nextTrackId>>
       ELSE IF ~Includes(embedUrl, YoutubeEmbed)
       THEN /\ response' = Reply("POST /add", RedirectError("/", ErrAddInvalid))
            /\ UNCHANGED <<tracks, nextTrackId>>
       ELSE /\ nextTrackId <= MaxTrackId
            /\ Cardinality(tracks) < MaxTracks
            /\ tracks' = tracks \cup
                  {NewTrack(nextTrackId, name, OrElse(artist, UserContributed),
                            OrElse(genre, UnknownPalateCleanser), embedUrl)}
            /\ nextTrackId' = nextTrackId + 1
            /\ response' = Reply("POST /add", Redirect("/"))
    /\ sessions' = Touch(sessions, s, Loaded(s))
    /\ deleting' = Interleaved(deleting)
    /\ UNCHANGED <<users, now, registering, seedPc, restarts, registered, homing>>

(***************************************************************************)
(* POST /delete/:id                                                        *)
(***************************************************************************)
\* Up to the await of User.updateMany: MusicTrack.findByIdAndDelete has run.
DeleteBegin(s, p) ==
    /\ IF ~isAuthenticated(s)
       THEN /\ response' = Reply("POST /delete", Redirect("/login"))
            /\ sessions' = Touch(sessions, s, Loaded(s))
            /\ deleting' = Interleaved(deleting)
            /\ UNCHANGED tracks
       ELSE IF ~p.hex
       THEN \* CastError
            /\ response' = Reply("POST /delete", Send(500, "Error processing deletion."))
            /\ sessions' = Touch(sessions, s, Loaded(s))
            /\ deleting' = Interleaved(deleting)
            /\ UNCHANGED tracks
       ELSE /\ Cardinality(deleting) < MaxDeleting
            /\ tracks' = FindByIdAndDelete(tracks, p.oid)
            /\ deleting' = Interleaved(deleting) \cup
                  {[sess |-> s, id |-> p, pre |-> Snapshot]}
            /\ response' = NoResponse
            /\ UNCHANGED sessions
    /\ UNCHANGED <<users, nextTrackId, now, registering, seedPc, restarts, registered, homing>>

\* User.updateMany({}, { $pull: { favorites: trackId } }), and the redirect.
DeleteCascade(d) ==
    /\ d \in deleting
    /\ users' = PullFromAll(users, d.id.oid)
    /\ deleting' = Interleaved(deleting \ {d})
    /\ response' = ReplyFound("POST /delete", Redirect("/browse"), d)
    /\ sessions' = Touch(sessions, d.sess, TRUE)
    /\ UNCHANGED <<tracks, nextTrackId, now, registering, seedPc, restarts, registered, homing>>

(***************************************************************************)
(* POST /favorite/:id, POST /unfavorite/:id, GET /favorites                *)
(***************************************************************************)
\* Faulty variant of FindByIdAndUpdate: updateMany({}, update).
UpdateEveryUser(U, uid, favs) == [i \in DOMAIN U |-> [U[i] EXCEPT !.favorites = favs]]

\* User.findByIdAndUpdate(userId, update): no user with that _id, no change
FindByIdAndUpdate(U, uid, favs) ==
    IF uid \in DOMAIN U THEN [U EXCEPT ![uid].favorites = favs] ELSE U

FavoritesOf(U, uid) == IF uid \in DOMAIN U THEN U[uid].favorites ELSE <<>>

Favorite(s, p) ==
    /\ IF ~isAuthenticated(s)
       THEN /\ response' = Reply("POST /favorite", Redirect("/login"))
            /\ UNCHANGED users
       ELSE IF ~p.hex
       THEN \* CastError
            /\ response' = Reply("POST /favorite", Send(500, "Error saving favorite."))
            /\ UNCHANGED users
       ELSE /\ users' = FindByIdAndUpdate(users, SessionUser(s),
                           AddToSet(FavoritesOf(users, SessionUser(s)), p.oid))
            /\ response' = ReplyFound("POST /favorite", Redirect("/favorites"),
                                      p.oid \in Range(FavoritesOf(users, SessionUser(s))))
    /\ sessions' = Touch(sessions, s, Loaded(s))
    /\ deleting' = Interleaved(deleting)
    /\ UNCHANGED <<tracks, nextTrackId, now, registering, seedPc, restarts, registered, homing>>

Unfavorite(s, p) ==
    /\ IF ~isAuthenticated(s)
       THEN /\ response' = Reply("POST /unfavorite", Redirect("/login"))
            /\ UNCHANGED users
       ELSE IF ~p.hex
       THEN \* CastError
            /\ response' = Reply("POST /unfavorite", Send(500, "Error removing favorite."))
            /\ UNCHANGED users
       ELSE /\ users' = FindByIdAndUpdate(users, SessionUser(s),
                           Pull(FavoritesOf(users, SessionUser(s)), p.oid))
            /\ response' = ReplyFound("POST /unfavorite", Redirect("/favorites"),
                                      p.oid \in Range(FavoritesOf(users, SessionUser(s))))
    /\ sessions' = Touch(sessions, s, Loaded(s))
    /\ deleting' = Interleaved(deleting)
    /\ UNCHANGED <<tracks, nextTrackId, now, registering, seedPc, restarts, registered, homing>>

ViewFavorites(s) ==
    /\ IF ~isAuthenticated(s)
       THEN response' = Reply("GET /favorites", Redirect("/login"))
       ELSE IF SessionUser(s) \notin DOMAIN users
       THEN \* user is null: user.favorites throws
            response' = Reply("GET /favorites", Send(500, "Error fetching favorites."))
       ELSE response' = [Reply("GET /favorites", Render("favorites", ""))
                            EXCEPT !.data = Populate(users[SessionUser(s)].favorites)]
    /\ sessions' = Touch(sessions, s, Loaded(s))
    /\ deleting' = Interleaved(deleting)
    /\ UNCHANGED <<users, tracks, nextTrackId, now, registering, seedPc, restarts, registered, homing>>

(***************************************************************************)
(* GET /                                                                   *)
(***************************************************************************)
\* Faulty variant of Sample: the sample is drawn from the seed list.
SampleSeeds(T) == {<<t>> : t \in Seeded(1)}

\* MusicTrack.aggregate([{ $sample: { size: 1 } }]): the arrays it can
\* return, one document of the collection, or none when it is empty.
Sample(T) == IF T = {} THEN {<<>>} ELSE {<<t>> : t \in T}

\* Up to the await of the aggregate: countDocuments has run.  pre
\* (history): the collection as it was counted.
HomeCount(s) ==
    /\ Cardinality(homing) < MaxHoming
    /\ homing' = homing \cup
          {[sess |-> s, tracksCount |-> Cardinality(tracks), loaded |-> Loaded(s),
            userId |-> SessionUser(s), pre |-> tracks]}
    /\ response' = NoResponse
    /\ deleting' = Interleaved(deleting)
    /\ UNCHANGED <<users, tracks, nextTrackId, sessions, now, registering, seedPc,
                   restarts, registered>>

\* The aggregate, track = randomTrack[0] (data, <<>> for undefined), the
\* lookup of the user, and the render of the index view with tracksCount.
HomeSample(h) ==
    /\ h \in homing
    /\ homing' = homing \ {h}
    /\ \E randomTrack \in Sample(tracks) :
          response' = [ReplyFound("GET /", Render("index", ""), h)
                          EXCEPT !.data = randomTrack]
    /\ sessions' = Touch(sessions, h.sess, h.loaded)
    /\ deleting' = Interleaved(deleting)
    /\ UNCHANGED <<users, tracks, nextTrackId, now, registering, seedPc, restarts,
                   registered>>

(***************************************************************************)
(* GET /browse                                                             *)
(***************************************************************************)
\* MusicTrack.find({}), and for a logged-in user the populated user record.
Browse(s) ==
    /\ response' = ReplyFound("GET /browse", Render("browse", ""),
                              [tracks |-> tracks,
                               favorites |-> Populate(FavoritesOf(users, SessionUser(s)))])
    /\ sessions' = Touch(sessions, s, Loaded(s))
    /\ deleting' = Interleaved(deleting)
    /\ UNCHANGED <<users, tracks, nextTrackId, now, registering, seedPc, restarts,
                   registered, homing>>

(***************************************************************************)
(* Store failures: an awaited store call rejects (the connection is lost,  *)
(* the server times out) and the catch block of the route answers.         *)
(***************************************************************************)
ErrHome == "Database error: Could not fetch tracks."

\* The answer of a catch block, for a request that changes nothing else.
Caught(s, loaded, reply) ==
    /\ response' = reply
    /\ sessions' = Touch(sessions, s, loaded)
    /\ deleting' = Interleaved(deleting)
    /\ UNCHANGED <<users, tracks, nextTrackId, now, seedPc, restarts, registered>>

\* user.save() rejects with an error whose code is not 11000.
RegisterSaveFails(r) ==
    /\ r \in registering
    /\ registering' = registering \ {r}
    /\ Caught(r.sess, r.loaded, Reply("POST /register", Render("register", ErrRegisterOther)))
    /\ UNCHANGED homing

\* User.findOne rejects.
LoginFails(s) ==
    /\ Caught(s, Loaded(s), Reply("POST /login", Send(500, "Server Error during login process.")))
    /\ UNCHANGED <<registering, homing>>

\* newTrack.save() rejects.
AddFails(s) ==
    /\ isAuthenticated(s)
    /\ Caught(s, Loaded(s), Reply("POST /add", Send(500, "Error adding track. Check server logs.")))
    /\ UNCHANGED <<registering, homing>>

\* MusicTrack.findByIdAndDelete rejects.
DeleteBeginFails(s) ==
    /\ isAuthenticated(s)
    /\ Caught(s, Loaded(s), Reply("POST /delete", Send(500, "Error processing deletion.")))
    /\ UNCHANGED <<registering, homing>>

\* User.updateMany rejects: the track is gone, the favorites stay.
DeleteCascadeFails(d) ==
    /\ d \in deleting
    /\ response' = Reply("POST /delete", Send(500, "Error processing deletion."))
    /\ sessions' = Touch(sessions, d.sess, TRUE)
    /\ deleting' = Interleaved(deleting \ {d})
    /\ UNCHANGED <<users, tracks, nextTrackId, now, registering, seedPc, restarts,
                   registered, homing>>

\* User.findByIdAndUpdate rejects.
FavoriteFails(s) ==
    /\ isAuthenticated(s)
    /\ Caught(s, Loaded(s), Reply("POST /favorite", Send(500, "Error saving favorite.")))
    /\ UNCHANGED <<registering, homing>>

UnfavoriteFails(s) ==
    /\ isAuthenticated(s)
    /\ Caught(s, Loaded(s), Reply("POST /unfavorite", Send(500, "Error removing favorite.")))
    /\ UNCHANGED <<registering, homing>>

\* User.findById(...).populate rejects.
ViewFavoritesFails(s) ==
    /\ isAuthenticated(s)
    /\ Caught(s, Loaded(s), Reply("GET /favorites", Send(500, "Error fetching favorites.")))
    /\ UNCHANGED <<registering, homing>>

\* MusicTrack.find rejects.
BrowseFails(s) ==
    /\ Caught(s, Loaded(s), Reply("GET /browse", Send(500, "Error loading track list.")))
    /\ UNCHANGED <<registering, homing>>

\* MusicTrack.countDocuments rejects: the index view is rendered with the
\* error message, track null and tracksCount 0.
HomeCountFails(s) ==
    /\ Caught(s, Loaded(s), Reply("GET /", Render("index", ErrHome)))
    /\ UNCHANGED <<registering, homing>>

\* MusicTrack.aggregate rejects: the same view, with the count that was read.
HomeSampleFails(h) ==
    /\ h \in homing
    /\ homing' = homing \ {h}
    /\ Caught(h.sess, h.loaded, ReplyFound("GET /", Render("index", ErrHome), h))
    /\ UNCHANGED registering

(***************************************************************************)
(* Specifications.                                                         *)
(***************************************************************************)
Usernames == {Alice, Bob}

\* The whole program.
Next ==
    \/ PopulateDeleteMany
    \/ PopulateCount
    \/ PopulateInsertMany
    \/ Restart
    \/ Tick
    \/ \E s \in Tokens, u \in Usernames \cup {Empty},
          pw \in {PwGood, PwShort, PwLongA, Undefined}, salt \in Salts :
             RegisterBegin(s, u, pw, salt)
    \/ \E r \in registering : RegisterSave(r)
    \/ \E s \in Tokens, u \in Usernames,
          pw \in {PwGood, PwOther, PwLongA, PwLongB, Empty, Undefined} : Login(s, u, pw)
    \/ \E s \in Tokens : Logout(s)
    \/ \E s \in Tokens, name \in {SongName, Empty}, url \in {GoodUrl, WatchUrl, Undefined} :
          Add(s, name, ArtistName, Undefined, url)
    \/ \E s \in Tokens, p \in TrackParams : DeleteBegin(s, p)
    \/ \E d \in deleting : DeleteCascade(d)
    \/ \E s \in Tokens, p \in TrackParams : Favorite(s, p)
    \/ \E s \in Tokens, p \in TrackParams : Unfavorite(s, p)
    \/ \E s \in Tokens : ViewFavorites(s)
    \/ \E s \in Tokens : HomeCount(s)
    \/ \E h \in homing : HomeSample(h)
    \/ \E s \in Tokens : Browse(s)
    \/ \E r \in registering : RegisterSaveFails(r)
    \/ \E s \in Tokens : LoginFails(s)
    \/ \E s \in Tokens : AddFails(s)
    \/ \E s \in Tokens : DeleteBeginFails(s)
    \/ \E d \in deleting : DeleteCascadeFails(d)
    \/ \E s \in Tokens : FavoriteFails(s)
    \/ \E s \in Tokens : UnfavoriteFails(s)
    \/ \E s \in Tokens : ViewFavoritesFails(s)
    \/ \E s \in Tokens : BrowseFails(s)
    \/ \E s \in Tokens : HomeCountFails(s)
    \/ \E h \in homing : HomeSampleFails(h)

Spec == Init /\ [][Next]_vars

(***************************************************************************)
(* The track and favorites routes, started from a state the account routes *)
(* and the startup reach: alice has registered in session s1 and bob in    *)
(* session s2, s3 is the token of a client that never logged in, and       *)
(* populateTracks has run on empty collections.                            *)
(***************************************************************************)
Registered ==
    /\ users = << [username |-> Alice, password |-> BcryptHash(PwGood, "salt1"),
                   favorites |-> <<>>],
                  [username |-> Bob, password |-> BcryptHash(PwGood, "salt1"),
                   favorites |-> <<>>] >>
    /\ registered = <<PwGood, PwGood>>
    /\ sessions = [s \in Tokens |->
                     IF s = "s3" THEN NoSession
                     ELSE [stored |-> TRUE, userId |-> IF s = "s1" THEN 1 ELSE 2,
                           expires |-> SessionMaxAge, started |-> 0]]
    /\ now = 0
    /\ registering = {}
    /\ deleting = {}
    /\ restarts = 0
    /\ response = NoResponse
    /\ homing = {}

InitFavorites ==
    /\ Registered
    /\ tracks = Seeded(1)
    /\ nextTrackId = Len(SeedTracks) + 1
    /\ seedPc = "done"

NextFavorites ==
    \/ \E s \in Tokens, name \in {SongName, Empty}, url \in {GoodUrl, WatchUrl, Undefined} :
          Add(s, name, ArtistName, Undefined, url)
    \/ \E s \in Tokens, p \in TrackParams : DeleteBegin(s, p)
    \/ \E d \in deleting : DeleteCascade(d)
    \/ \E s \in Tokens, p \in TrackParams : Favorite(s, p)
    \/ \E s \in Tokens, p \in TrackParams : Unfavorite(s, p)
    \/ \E s \in Tokens : ViewFavorites(s)

SpecFavorites == InitFavorites /\ [][NextFavorites]_vars

(***************************************************************************)
(* The account routes: registration, login and logout from two browsers,   *)
(* and one favorites route, so that user records differ.                   *)
(***************************************************************************)
AccountTokens == {"s1", "s2"}

NextAccounts ==
    \/ \E s \in AccountTokens, u \in Usernames \cup {Empty}, pw \in {PwGood, PwShort},
          salt \in Salts : RegisterBegin(s, u, pw, salt)
    \/ \E r \in registering : RegisterSave(r)
    \/ \E s \in AccountTokens, u \in Usernames, pw \in {PwGood, PwOther} : Login(s, u, pw)
    \/ \E s \in AccountTokens : Logout(s)
    \/ \E s \in AccountTokens : Favorite(s, ObjectIdParam(1))

SpecAccounts == Init /\ [][NextAccounts]_vars

(***************************************************************************)
(* Passwords: one browser registers and logs in with passwords of every    *)
(* kind.                                                                   *)
(***************************************************************************)
RegisterPasswords == {PwGood, PwLongA, PwShort, PwFive, Empty, Undefined}

LoginPasswords == {PwGood, PwOther, PwLongA, PwLongB, PwShort, Empty, Undefined}

NextPasswords ==
    \/ \E u \in Usernames \cup {Empty, Undefined}, pw \in RegisterPasswords, salt \in Salts :
          RegisterBegin("s1", u, pw, salt)
    \/ \E r \in registering : RegisterSave(r)
    \/ \E u \in Usernames, pw \in LoginPasswords : Login("s1", u, pw)
    \/ Logout("s1")

SpecPasswords == Init /\ [][NextPasswords]_vars

(***************************************************************************)
(* Sessions over time: alice and bob have registered; login, logout and a  *)
(* protected route from two browsers, with the clock.                      *)
(***************************************************************************)
NextSessions ==
    \/ Tick
    \/ \E s \in AccountTokens, salt \in Salts : RegisterBegin(s, Carol, PwGood, salt)
    \/ \E r \in registering : RegisterSave(r)
    \/ \E s \in AccountTokens, u \in Usernames, pw \in {PwGood, PwOther} : Login(s, u, pw)
    \/ \E s \in AccountTokens : Logout(s)
    \/ \E s \in AccountTokens : ViewFavorites(s)

SpecSessions == InitFavorites /\ [][NextSessions]_vars


(***************************************************************************)
(* Startup and restart: populateTracks against the track routes of one     *)
(* browser, alice and bob registered.                                      *)
(***************************************************************************)
NextStartup ==
    \/ PopulateDeleteMany
    \/ PopulateCount
    \/ PopulateInsertMany
    \/ Restart
    \/ Add("s1", SongName, Undefined, Undefined, GoodUrl)
    \/ \E p \in TrackParams : DeleteBegin("s1", p)
    \/ \E d \in deleting : DeleteCascade(d)
    \/ \E p \in TrackParams : Favorite("s1", p)
    \/ ViewFavorites("s1")

InitStartup ==
    /\ Registered
    /\ tracks = {}
    /\ nextTrackId = 1
    /\ seedPc = "deleteMany"

SpecStartup == InitStartup /\ [][NextStartup]_vars

(***************************************************************************)
(* The random-track page against startup, restart and delete: alice and    *)
(* bob registered, the page asked for by alice's browser and by an         *)
(* anonymous one.                                                          *)
(***************************************************************************)
HomeTokens == {"s1", "s3"}

NextHome ==
    \/ PopulateDeleteMany
    \/ PopulateCount
    \/ PopulateInsertMany
    \/ Restart
    \/ \E s \in HomeTokens : HomeCount(s)
    \/ \E h \in homing : HomeSample(h)
    \/ \E p \in TrackParams : DeleteBegin("s1", p)
    \/ \E d \in deleting : DeleteCascade(d)

SpecHome == InitStartup /\ [][NextHome]_vars

(***************************************************************************)
(* Store failures in every route: alice and bob registered, requests from  *)
(* alice's browser, each store call free to fail.                          *)
(***************************************************************************)
NextFailures ==
    \/ \E salt \in Salts : RegisterBegin("s1", Carol, PwGood, salt)
    \/ \E r \in registering : RegisterSave(r)
    \/ \E r \in registering : RegisterSaveFails(r)
    \/ LoginFails("s1")
    \/ AddFails("s1")
    \/ \E p \in TrackParams : DeleteBegin("s1", p)
    \/ \E d \in deleting : DeleteCascade(d)
    \/ DeleteBeginFails("s1")
    \/ \E d \in deleting : DeleteCascadeFails(d)
    \/ Favorite("s1", ObjectIdParam(1))
    \/ FavoriteFails("s1")
    \/ UnfavoriteFails("s1")
    \/ ViewFavoritesFails("s1")
    \/ Browse("s1")
    \/ BrowseFails("s1")
    \/ HomeCount("s1")
    \/ \E h \in homing : HomeSample(h)
    \/ HomeCountFails("s1")
    \/ \E h \in homing : HomeSampleFails(h)

SpecFailures == InitFavorites /\ [][NextFailures]_vars

(***************************************************************************)
(* Properties.                                                             *)
(***************************************************************************)
Favorites(i) == Range(users[i].favorites)

\* C1: whenever no delete-track request is between its two steps, every id
\* in every user's favorites is the id of a track in the tracks collection.
C1_FavoritesReferToTracks ==
    deleting = {} => \A i \in DOMAIN users : Favorites(i) \subseteq TrackIds

\* seq without the occurrences of x
RECURSIVE Without(_, _)
Without(seq, x) ==
    IF seq = <<>> THEN <<>>
    ELSE IF Head(seq) = x THEN Without(Tail(seq), x)
    ELSE <<Head(seq)>> \o Without(Tail(seq), x)

\* The delete request that has just been answered, if it ran from its first
\* step to its last with no other operation in between.
DeleteRanAlone ==
    /\ response.route = "POST /delete"
    /\ response.res = Redirect("/browse")
    /\ response.found[1].pre.clean

\* C2: after a delete-track request for t that ran with nothing interleaved,
\* t is in no user's favorites and not among the tracks; every user's
\* favorites are otherwise as before, and all other tracks remain.
C2_DeleteCascades ==
    DeleteRanAlone =>
        LET t == response.found[1].id.oid
            before == response.found[1].pre
        IN  /\ \A i \in DOMAIN users : t \notin Favorites(i)
            /\ t \notin TrackIds
            /\ tracks = {d \in before.tracks : d._id # t}
            /\ DOMAIN users = DOMAIN before.users
            /\ \A i \in DOMAIN users :
                  /\ users[i].username = before.users[i].username
                  /\ users[i].password = before.users[i].password
                  /\ users[i].favorites = Without(before.users[i].favorites, t)

\* C2 witness: such a delete of a track that was stored, was a favorite of
\* both alice and bob, each with another favorite beside it.
C2_Witness ==
    /\ DeleteRanAlone
    /\ LET t == response.found[1].id.oid
           before == response.found[1].pre
       IN  /\ t \in {d._id : d \in before.tracks}
           /\ \A i \in {1, 2} : t \in Range(before.users[i].favorites)
           /\ \A i \in {1, 2} : Len(before.users[i].favorites) = 2
           /\ Cardinality(before.tracks) > 1

NoDuplicates(seq) == \A j, k \in DOMAIN seq : j # k => seq[j] # seq[k]

\* C3: no user's favorites holds an id twice; a favorite request for an id
\* that is already in the user's favorites leaves all users unchanged, and
\* after any favorite request the id is in the user's favorites once.
C3_FavoritesAreASet ==
    /\ [](\A i \in DOMAIN users : NoDuplicates(users[i].favorites))
    /\ [][\A s \in Tokens, p \in TrackParams :
            (Favorite(s, p) /\ SessionUser(s) # 0 /\ p.hex) =>
                /\ Cardinality({j \in DOMAIN users'[SessionUser(s)].favorites :
                                   users'[SessionUser(s)].favorites[j] = p.oid}) = 1
                /\ p.oid \in Range(FavoritesOf(users, SessionUser(s))) => users' = users]_vars

\* C3 witness: a favorite request for an id that was already a favorite has
\* been answered.
C3_Witness ==
    /\ response.route = "POST /favorite"
    /\ response.res = Redirect("/favorites")
    /\ response.found = <<TRUE>>
    /\ \E i \in DOMAIN users : Len(users[i].favorites) = 2

\* C4: an unfavorite request for an id that is not in the user's favorites
\* is answered with the redirect to /favorites and changes no user; after
\* any unfavorite request the id is not in the user's favorites, so that a
\* second one changes nothing.
C4_UnfavoriteIdempotent ==
    [][\A s \in Tokens, p \in TrackParams :
          (Unfavorite(s, p) /\ SessionUser(s) # 0 /\ p.hex) =>
              /\ p.oid \notin Range(FavoritesOf(users', SessionUser(s)))
              /\ p.oid \notin Range(FavoritesOf(users, SessionUser(s))) =>
                    /\ response'.res = Redirect("/favorites")
                    /\ users' = users]_vars

\* C4 witness: an unfavorite request for an id that was not a favorite has
\* been answered, for a user who has favorites.
C4_Witness ==
    /\ response.route = "POST /unfavorite"
    /\ response.res = Redirect("/favorites")
    /\ response.found = <<FALSE>>
    /\ \A i \in DOMAIN users : users[i].favorites # <<>>

\* C9: a request without a valid session to POST /add, POST /delete/:id,
\* POST /favorite/:id, POST /unfavorite/:id or GET /favorites is answered
\* with the redirect to /login and leaves users and tracks unchanged.
C9_UnauthenticatedRedirects ==
    [][\A s \in Tokens :
          (/\ SessionUser(s) = 0
           /\ \/ \E name \in {SongName, Empty}, url \in {GoodUrl, WatchUrl, Undefined} :
                    Add(s, name, ArtistName, Undefined, url)
              \/ \E p \in TrackParams : DeleteBegin(s, p)
              \/ \E p \in TrackParams : Favorite(s, p)
              \/ \E p \in TrackParams : Unfavorite(s, p)
              \/ ViewFavorites(s))
          => /\ response'.res = Redirect("/login")
             /\ users' = users
             /\ tracks' = tracks]_vars

\* C9 witness: a delete request has been redirected to /login while there
\* are tracks and favorites.
C9_Witness ==
    /\ response.route = "POST /delete"
    /\ response.res = Redirect("/login")
    /\ tracks # {}
    /\ \E i \in DOMAIN users : users[i].favorites # <<>>

\* C10: an add-track request (of a logged-in user) whose name is empty or
\* whose embedUrl is missing or is no YouTube embed link is answered with an
\* error message for the user, never with a 5xx status, and adds no track.
C10_InvalidTrackRejected ==
    [][\A s \in Tokens, name \in {SongName, Empty}, url \in {GoodUrl, WatchUrl, Undefined} :
          (/\ Add(s, name, ArtistName, Undefined, url)
           /\ SessionUser(s) # 0
           /\ \/ ~Truthy(name)
              \/ url.type # "string"
              \/ ~Includes(url, YoutubeEmbed))
          => /\ response'.res.status < 500
             /\ response'.res.error # ""
             /\ tracks' = tracks]_vars


\* C5: a registration (with a body that passes the checks of the route)
\* with a username that a stored user has is answered with the
\* username-taken message, creates no user, binds no user to the
\* requester's session and leaves the stored users unchanged; no two stored
\* users ever share a username, however registrations interleave.
C5_DuplicateUsernameRejected ==
    /\ [](\A i, j \in DOMAIN users : i # j => users[i].username # users[j].username)
    /\ [][\A r \in registering :
            (/\ RegisterSave(r)
             /\ \E i \in DOMAIN users : users[i].username = r.username)
            => /\ response'.res = Render("register", ErrRegisterTaken)
               /\ users' = users
               /\ sessions'[r.sess].stored = sessions[r.sess].stored
               /\ sessions'[r.sess].userId = sessions[r.sess].userId]_vars

\* C5 witness: a registration was answered with the username-taken message
\* while another one for a stored username is still in flight, and the
\* stored user has a favorite.
C5_Witness ==
    /\ response.route = "POST /register"
    /\ response.res = Render("register", ErrRegisterTaken)
    /\ Len(users) = 1
    /\ users[1].favorites # <<>>
    /\ \E r \in registering : r.username = users[1].username

\* C6: a registration with an unused username and a password of at least
\* MinPasswordLength characters succeeds, and a later login with that
\* username succeeds if the submitted password is the registered one and is
\* answered with the invalid-credentials message if it is any other string.
C6_LoginIffRegisteredPassword ==
    /\ [][\A r \in registering :
            (RegisterSave(r) /\ ~\E i \in DOMAIN users : users[i].username = r.username)
            => /\ response'.res = Redirect("/")
               /\ Len(users') = Len(users) + 1]_vars
    /\ [][\A u \in Usernames, pw \in LoginPasswords :
            (Login("s1", u, pw) /\ FindOne(u) # 0 /\ pw.type = "string")
            => IF pw = registered[FindOne(u)]
               THEN response'.res = Redirect("/")
               ELSE response'.res = Render("login", ErrLoginInvalid)]_vars

\* C7: a logout leaves its session token resolving to no user, and a token
\* whose session has been destroyed resolves to a user again only by a
\* login or a registration that succeeds.
C7_LogoutEndsSession ==
    [][/\ \A s \in Tokens : Logout(s) => (~sessions'[s].stored /\ SessionUser(s)' = 0)
       /\ \A s \in Tokens :
             (~sessions[s].stored /\ SessionUser(s)' # 0)
             => /\ response'.route \in {"POST /login", "POST /register"}
                /\ response'.res = Redirect("/")]_vars

\* C7 witness: a logout has been answered and the token of alice's session
\* resolves to no user, before the session would have expired.
C7_Witness ==
    /\ response.route = "POST /logout"
    /\ response.res = Redirect("/login")
    /\ SessionUser("s1") = 0
    /\ now < SessionMaxAge

\* C8: a session started for user u at time T resolves to u at every time
\* before T + SessionMaxAge and to no user at every time after it.
C8_FixedLifetime ==
    \A s \in Tokens :
        sessions[s].stored =>
            /\ now < sessions[s].started + SessionMaxAge
                  => SessionUser(s) = sessions[s].userId
            /\ now > sessions[s].started + SessionMaxAge => SessionUser(s) = 0

\* C11: the favorites listing of a logged-in user is rendered, not failed,
\* and holds exactly the stored tracks whose ids are in the user's
\* favorites: ids that resolve to no track are left out.
C11_ListingDropsDangling ==
    [][\A s \in Tokens :
          (ViewFavorites(s) /\ SessionUser(s) \in DOMAIN users) =>
              /\ response'.res = Render("favorites", "")
              /\ Range(response'.data) \subseteq tracks
              /\ {d._id : d \in Range(response'.data)}
                    = Range(users[SessionUser(s)].favorites) \cap TrackIds]_vars

\* C11 witness: a delete has removed a track and its cascade has not run,
\* every user still has the id in their favorites, and a favorites listing
\* was rendered with other tracks and without that one.
C11_Witness ==
    /\ response.route = "GET /favorites"
    /\ response.res = Render("favorites", "")
    /\ response.data # <<>>
    /\ \E d \in deleting :
          /\ d.id.oid \notin TrackIds
          /\ \A i \in DOMAIN users : d.id.oid \in Range(users[i].favorites)
          /\ \A j \in DOMAIN response.data : response.data[j]._id # d.id.oid

\* C12: a delete request for an id that no stored track has, run with no
\* other operation between its two store calls, is not answered as a
\* successful delete is, and leaves the tracks and all users unchanged.
C12_DeleteMissingIsNotFound ==
    [][\A d \in deleting :
          (/\ DeleteCascade(d)
           /\ d.pre.clean
           /\ d.id.oid \notin {t._id : t \in d.pre.tracks})
          => /\ response'.res # Redirect("/browse")
             /\ tracks' = d.pre.tracks
             /\ users' = d.pre.users]_vars

\* C13: a stored track leaves the tracks collection only in a step of a
\* delete request for its id; no step of populateTracks removes one, so the
\* tracks stored before a restart are stored after it.
C13_TracksLeaveOnlyByDelete ==
    [][\A t \in tracks :
          t \notin tracks' =>
              \E s \in Tokens, p \in TrackParams :
                  DeleteBegin(s, p) /\ p.hex /\ p.oid = t._id]_vars

\* C14: a registration whose username is empty or missing, or whose
\* password is missing or shorter than MinPasswordLength characters, is
\* answered with the registration form and the invalid-input message,
\* creates no user, starts no insert and leaves the session of the
\* requester bound as it was.
C14_InvalidRegistrationRejected ==
    [][\A u \in Usernames \cup {Empty, Undefined}, pw \in RegisterPasswords, salt \in Salts :
          (/\ RegisterBegin("s1", u, pw, salt)
           /\ \/ u \in {Empty, Undefined}
              \/ pw = Undefined
              \/ Len(pw.chars) < MinPasswordLength)
          => /\ response'.res = Render("register", ErrRegisterInvalid)
             /\ users' = users
             /\ registering' = registering
             /\ sessions'["s1"].stored = sessions["s1"].stored
             /\ sessions'["s1"].userId = sessions["s1"].userId]_vars

\* C14 witness: a registration was answered with the invalid-input message
\* in a session bound to the one stored user, and the session is still
\* bound to that user.
C14_Witness ==
    /\ response.route = "POST /register"
    /\ response.res = Render("register", ErrRegisterInvalid)
    /\ Len(users) = 1
    /\ registering = {}
    /\ SessionUser("s1") = 1

\* C15: the random-track page is always rendered, never failed; it is
\* given no track exactly when the tracks collection is empty as the sample
\* is drawn, and otherwise one track of the collection; and its track count
\* is the size of the collection if the collection is as it was counted,
\* so 0 on an empty one.
C15_RandomTrackOrEmpty ==
    [][\A h \in homing :
          HomeSample(h) =>
              /\ response'.res = Render("index", "")
              /\ Len(response'.data) <= 1
              /\ tracks = {} <=> response'.data = <<>>
              /\ Range(response'.data) \subseteq tracks
              /\ response'.found[1].tracksCount = Cardinality(h.pre)
              /\ tracks = h.pre => response'.found[1].tracksCount = Cardinality(tracks)]_vars

\* C15 witness: the random-track page was rendered with no track and a
\* track count of 0 on an empty collection.
C15_Witness ==
    /\ response.route = "GET /"
    /\ response.res = Render("index", "")
    /\ response.data = <<>>
    /\ response.found[1].tracksCount = 0
    /\ tracks = {}

\* C16: whenever a store call fails inside a route, the route answers with
\* status 500.
C16_StoreFailureIs500 ==
    [][(\/ \E r \in registering : RegisterSaveFails(r)
        \/ \E s \in Tokens :
              \/ LoginFails(s)
              \/ AddFails(s)
              \/ DeleteBeginFails(s)
              \/ FavoriteFails(s)
              \/ UnfavoriteFails(s)
              \/ ViewFavoritesFails(s)
              \/ BrowseFails(s)
              \/ HomeCountFails(s)
        \/ \E d \in deleting : DeleteCascadeFails(d)
        \/ \E h \in homing : HomeSampleFails(h))
       => response'.res.status = 500]_vars

\* C17: a stored session with a userId has the _id of a stored user; a
\* login with a username no user has, or with a password other than the one
\* the user registered with, leaves the userId of its session and the
\* presence of the session as they were.
C17_SessionBoundOnlyByCredentials ==
    /\ [](\A s \in Tokens :
            (sessions[s].stored /\ sessions[s].userId # 0)
            => sessions[s].userId \in DOMAIN users)
    /\ [][\A u \in Usernames, pw \in LoginPasswords :
            (/\ Login("s1", u, pw)
             /\ \/ FindOne(u) = 0
                \/ pw # registered[FindOne(u)])
            => /\ sessions'["s1"].userId = sessions["s1"].userId
               /\ sessions'["s1"].stored = sessions["s1"].stored]_vars

\* C18: a favorite or unfavorite request of a session bound to user u, with
\* any id, leaves the tracks, the number of users, every user's username
\* and password hash and the favorites of every user but u unchanged.
C18_FavoriteFrame ==
    [][\A s \in Tokens, p \in TrackParams :
          (Favorite(s, p) \/ Unfavorite(s, p)) =>
              /\ tracks' = tracks
              /\ DOMAIN users' = DOMAIN users
              /\ \A i \in DOMAIN users :
                    /\ users'[i].username = users[i].username
                    /\ users'[i].password = users[i].password
                    /\ i # SessionUser(s) => users'[i].favorites = users[i].favorites]_vars

\* C18 witness: a favorite request has added an id while alice and bob
\* both have favorites, and theirs differ.
C18_Witness ==
    /\ response.route = "POST /favorite"
    /\ response.res = Redirect("/favorites")
    /\ response.found = <<FALSE>>
    /\ users[1].favorites # <<>>
    /\ users[2].favorites # <<>>
    /\ users[1].favorites # users[2].favorites

====
